---- MODULE Spec2Model ----
(***************************************************************************)
(* Kaleidoscope: the RTSPCamera frame source (kaleidoscope_rtsp.py) with   *)
(* its producer thread(s) and the calls the render thread makes on it, and *)
(* the render loops of kaleidoscope.py and kaleidoscope_rtsp.py.           *)
(*                                                                         *)
(* Times are in tenths of a second (1.0 s = 10), so that the 0.5 s step of *)
(* the reconnect backoff is an integer.                                    *)
(***************************************************************************)
EXTENDS Integers, Naturals, Sequences, FiniteSets, TLC

(* ------------------------------ bounds -------------------------------- *)
\* producer threads one camera object may ever be given by start()
MaxThreads == 2
\* VideoCapture objects the producers may construct
MaxHandles == 2
\* frames the stream decodes successfully
MaxFrames == 2
\* consecutive failed opens that are counted exactly (then the count sticks)
MaxFails == 10

\* the stream sources (cameras, or images of the static program)
NumSources == 2
\* ticks of the render loop while it is running
MaxTicks == 2
\* largest slice count the UP key is followed to
MaxSlices == 16
\* presses of a speed key, in either direction, from the initial speed
MaxSpeedSteps == 1
\* presses of LEFT below the initial speed that the slow-down runs follow
MaxLeftPresses == 9

(* ------------------------- program constants -------------------------- *)
\* retry_delay = 1.0
InitialDelay == 10
\* retry_delay + 0.5
DelayStep == 5
\* min(5.0, ...)
MaxDelay == 50
\* WIDTH, HEIGHT = 900, 700
WIDTH == 900
HEIGHT == 700
\* SLICES = 14
InitialSlices == 14
\* SPEED_DEG_PER_SEC = 34.0 (kaleidoscope_rtsp.py), 14.0 (kaleidoscope.py)
RtspSpeed == 34
StaticSpeed == 14
\* SPEED_DEG_PER_SEC += 2.0, -= 2.0
SpeedStep == 2
\* SLICES + 2, SLICES - 2, max(2, ...)
SliceStep == 2
MinSlices == 2
\* R = min(width, height) // 2 - 30
Margin == 30
\* steps = max(10, int(angle_deg))
MinSteps == 10
\* 360.0 / SLICES, % 360.0
FullTurn == 360

VARIABLES
    \* ---- RTSPCamera fields (kaleidoscope_rtsp.py 85-93)
    running,      \* self.running
    thread,       \* self.thread: 0 is None, else the id of the Thread object
    cap,          \* self.cap: 0 is None, else the id of the VideoCapture
    frame,        \* self.frame: None or the stored array
    last_ok,      \* self.last_ok
    lock,         \* self.lock: who holds it
    \* ---- the world of the camera
    hstate,       \* each VideoCapture: "unused", "open", "closed", "released"
    nFrames,      \* frames decoded so far (the next frame is nFrames + 1)
    \* ---- producer threads (_loop)
    pc,           \* where each thread stands in _loop
    retry_delay,  \* _loop's local retry_delay
    local,        \* _loop's local frame between read() and the store
    \* ---- render thread (caller of start, stop, get_surface)
    mpc,          \* where the caller stands
    surf,         \* what the last get_surface returned (None or a surface)
    copied,       \* get_surface's local frame, between the copy and the return
    \* ---- history
    fails,        \* consecutive failed opens of each thread
    failedOn,     \* the handle a thread's last read failed on (0: none pending)
    stored,       \* number of the frame stored last (0: none ever)
    storedAtCopy, \* value of stored when get_surface took its copy
    joinTimedOut, \* whether the join of the stop() under way timed out
    \* ---- the render loop (kaleidoscope.py, kaleidoscope_rtsp.py)
    prog,         \* which program runs: "static" or "rtsp"
    desktop,      \* the size set_mode((0, 0), FULLSCREEN) gives
    mode,         \* "splash", "events" (inside a loop iteration), "cleanup", "exited"
    loop_running, \* the main loop's running
    SLICES,
    screen,       \* size of the display surface
    fullscreen,
    R, base_size, center, slice_angle, wedge_mask, circle_mask,
    trail,        \* trail_surface
    theta,        \* t, the rotation angle (a double, see AdvanceAngle)
    speed,        \* SPEED_DEG_PER_SEC
    paused,
    idx,          \* active_idx / current_idx, counted from 1
    raw_image,    \* kaleidoscope.py: the scaled source image
    hasFrame,     \* per camera: whether its slot holds a frame
    lastOk,       \* per camera: its last_ok
    cams,         \* the cameras: "none", "started", "stopped"
    nTicks,       \* ticks made
    lastCall      \* what the step just taken handed to and got from
                  \* render_kaleidoscope, None when it made no such call

camVars == <<running, thread, cap, frame, last_ok, lock, hstate, nFrames, pc,
             retry_delay, local, mpc, surf, copied, fails, failedOn,
             stored, storedAtCopy, joinTimedOut>>
geomVars == <<R, base_size, center, slice_angle, wedge_mask, circle_mask>>
uiVars == <<prog, desktop, mode, loop_running, SLICES, screen, fullscreen,
            geomVars, trail, theta, speed, paused, idx, raw_image, hasFrame, lastOk,
            cams, nTicks, lastCall>>
vars == <<camVars, uiVars>>

Threads == 1..MaxThreads
Handles == 1..MaxHandles
None == <<>>

Min(a, b) == IF a <= b THEN a ELSE b
Max(a, b) == IF a >= b THEN a ELSE b

\* a decoded frame: every pixel carries the number of the read that made it
Decoded(i) == [px |-> <<i, i>>, layout |-> "BGR", size |-> <<WIDTH, HEIGHT>>]

Free == [who |-> "free", tid |-> 0]
ByMain == [who |-> "main", tid |-> 0]
ByProducer(t) == [who |-> "producer", tid |-> t]

Alive(t) == pc[t] \notin {"unborn", "done", "crashed"}

(* ---------------------- RTSPCamera: pure helpers ---------------------- *)
\* threads start() has created so far
Created == {t \in Threads : pc[t] # "unborn"}

\* cap.isOpened()
IsOpened(h) == hstate[h] = "open"

\* (variant: the cap of 5.0 s forgotten)
NextRetryDelayNoCap(d) == d + DelayStep

\* retry_delay = min(5.0, retry_delay + 0.5)
NextRetryDelay(d) == Min(MaxDelay, d + DelayStep)

\* (variant: a slot that is filled once and never replaced)
StoreFrameFirstOnly(old, new) == IF old = None THEN new ELSE old

\* (variant: the array in the slot overwritten in place, and only in part)
StoreFrameInPlace(old, new) ==
    IF old = None THEN new ELSE [old EXCEPT !.px = <<new.px[1], old.px[2]>>]

\* self.frame = frame: the slot is rebound to the new array
StoreFrame(old, new) == new

\* self.frame.copy()
CopyFrame(f) == f

\* cvtColor(BGR2RGB), resize to target_size, image.frombuffer(...).convert()
ToSurface(f, target) == [px |-> f.px, layout |-> "RGB", size |-> target]

\* one more consecutive failed open (counted exactly up to MaxFails)
CountFail(k) == Min(MaxFails, k + 1)

(* ------------------------- RTSPCamera.start --------------------------- *)
\* limit: how many threads the caller's start() calls may create in all
StartCamera(limit) ==
    /\ mpc = "idle"
    /\ IF running
       THEN UNCHANGED <<running, thread, pc, retry_delay, fails>>
       ELSE /\ Cardinality(Created) < limit
            /\ LET t == Cardinality(Created) + 1 IN
               /\ running' = TRUE
               /\ thread' = t
               /\ pc' = [pc EXCEPT ![t] = "check"]
               /\ retry_delay' = [retry_delay EXCEPT ![t] = InitialDelay]
               /\ fails' = [fails EXCEPT ![t] = 0]
    /\ UNCHANGED <<cap, frame, last_ok, lock, hstate, nFrames, local, mpc, surf,
                   copied, failedOn, stored, storedAtCopy, joinTimedOut, uiVars>>

(* -------------------------- RTSPCamera.stop --------------------------- *)
\* self.running = False
StopSignal ==
    /\ mpc = "idle"
    /\ running' = FALSE
    /\ joinTimedOut' = FALSE
    /\ mpc' = "stop_join"
    /\ UNCHANGED <<thread, cap, frame, last_ok, lock, hstate, nFrames, pc,
                   retry_delay, local, surf, copied, fails, failedOn, stored,
                   storedAtCopy, uiVars>>

\* (variant: stop() without the join)
StopJoinNoWait ==
    /\ mpc = "stop_join"
    /\ mpc' = "stop_test"
    /\ UNCHANGED <<running, thread, cap, frame, last_ok, lock, hstate, nFrames,
                   pc, retry_delay, local, surf, copied, fails, failedOn, stored,
                   storedAtCopy, joinTimedOut, uiVars>>

\* if self.thread is not None: self.thread.join(timeout=1.0)
\* join returns when the thread is dead, or when the timeout has elapsed
StopJoin ==
    /\ mpc = "stop_join"
    /\ \/ thread = 0 /\ UNCHANGED joinTimedOut
       \/ thread # 0 /\ ~Alive(thread) /\ UNCHANGED joinTimedOut
       \/ thread # 0 /\ Alive(thread) /\ joinTimedOut' = TRUE
    /\ mpc' = "stop_test"
    /\ UNCHANGED <<running, thread, cap, frame, last_ok, lock, hstate, nFrames,
                   pc, retry_delay, local, surf, copied, fails, failedOn, stored,
                   storedAtCopy, uiVars>>

\* if self.cap is not None:
StopTest ==
    /\ mpc = "stop_test"
    /\ mpc' = IF cap # 0 THEN "stop_release" ELSE "idle"
    /\ joinTimedOut' = IF cap # 0 THEN joinTimedOut ELSE FALSE
    /\ UNCHANGED <<running, thread, cap, frame, last_ok, lock, hstate, nFrames,
                   pc, retry_delay, local, surf, copied, fails, failedOn, stored,
                   storedAtCopy, uiVars>>

\* try: self.cap.release() except Exception: pass
StopRelease ==
    /\ mpc = "stop_release"
    /\ hstate' = IF cap # 0 THEN [hstate EXCEPT ![cap] = "released"] ELSE hstate
    /\ mpc' = "stop_clear"
    /\ UNCHANGED <<running, thread, cap, frame, last_ok, lock, nFrames, pc,
                   retry_delay, local, surf, copied, fails, failedOn, stored,
                   storedAtCopy, joinTimedOut, uiVars>>

\* self.cap = None
StopClear ==
    /\ mpc = "stop_clear"
    /\ cap' = 0
    /\ mpc' = "idle"
    /\ joinTimedOut' = FALSE
    /\ UNCHANGED <<running, thread, frame, last_ok, lock, hstate, nFrames, pc,
                   retry_delay, local, surf, copied, fails, failedOn, stored,
                   storedAtCopy, uiVars>>

(* ----------------------- RTSPCamera.get_surface ----------------------- *)
\* the call is made; it then waits for the lock
GetCall ==
    /\ mpc = "idle"
    /\ mpc' = "gs_acquire"
    /\ UNCHANGED <<running, thread, cap, frame, last_ok, lock, hstate, nFrames,
                   pc, retry_delay, local, surf, copied, fails, failedOn, stored,
                   storedAtCopy, joinTimedOut, uiVars>>

\* with self.lock:
GetAcquire ==
    /\ mpc = "gs_acquire"
    /\ lock = Free
    /\ lock' = ByMain
    /\ mpc' = "gs_copy"
    /\ UNCHANGED <<running, thread, cap, frame, last_ok, hstate, nFrames, pc,
                   retry_delay, local, surf, copied, fails, failedOn, stored,
                   storedAtCopy, joinTimedOut, uiVars>>

\* frame = None if self.frame is None else self.frame.copy()
GetCopy ==
    /\ mpc = "gs_copy"
    /\ copied' = IF frame = None THEN None ELSE CopyFrame(frame)
    /\ storedAtCopy' = stored
    /\ mpc' = "gs_release"
    /\ UNCHANGED <<running, thread, cap, frame, last_ok, lock, hstate, nFrames,
                   pc, retry_delay, local, surf, fails, failedOn, stored,
                   joinTimedOut, uiVars>>

\* the with block ends
GetRelease ==
    /\ mpc = "gs_release"
    /\ lock' = Free
    /\ mpc' = "gs_return"
    /\ UNCHANGED <<running, thread, cap, frame, last_ok, hstate, nFrames, pc,
                   retry_delay, local, surf, copied, fails, failedOn, stored,
                   storedAtCopy, joinTimedOut, uiVars>>

\* if frame is None: return None ... return pygame.image.frombuffer(...)
GetReturn ==
    /\ mpc = "gs_return"
    /\ surf' = IF copied = None THEN None ELSE ToSurface(copied, base_size)
    /\ copied' = None
    /\ mpc' = "idle"
    /\ UNCHANGED <<running, thread, cap, frame, last_ok, lock, hstate, nFrames,
                   pc, retry_delay, local, fails, failedOn, stored, storedAtCopy,
                   joinTimedOut, uiVars>>

(* ------------------------- RTSPCamera._loop --------------------------- *)
\* Steps are split where _loop reads or writes a field another thread writes
\* (running, cap, lock, frame). self.last_ok is read by no one, and a sleep
\* touches nothing: each is part of the step it follows.

\* while self.running:
LoopCheck(t) ==
    /\ pc[t] = "check"
    /\ pc' = [pc EXCEPT ![t] = IF running THEN "test_none" ELSE "done"]
    /\ UNCHANGED <<running, thread, cap, frame, last_ok, lock, hstate, nFrames,
                   retry_delay, local, mpc, surf, copied, fails, failedOn, stored,
                   storedAtCopy, joinTimedOut, uiVars>>

\* if self.cap is None or ...
LoopTestNone(t) ==
    /\ pc[t] = "test_none"
    /\ pc' = [pc EXCEPT ![t] = IF cap = 0 THEN "open" ELSE "test_opened"]
    /\ UNCHANGED <<running, thread, cap, frame, last_ok, lock, hstate, nFrames,
                   retry_delay, local, mpc, surf, copied, fails, failedOn, stored,
                   storedAtCopy, joinTimedOut, uiVars>>

\* ... or not self.cap.isOpened(): self.cap is read again; when stop() has set
\* it to None in between, the call raises AttributeError and the thread dies
LoopTestOpened(t) ==
    /\ pc[t] = "test_opened"
    /\ pc' = [pc EXCEPT ![t] = IF cap = 0 THEN "crashed"
                               ELSE IF IsOpened(cap) THEN "read" ELSE "open"]
    /\ UNCHANGED <<running, thread, cap, frame, last_ok, lock, hstate, nFrames,
                   retry_delay, local, mpc, surf, copied, fails, failedOn, stored,
                   storedAtCopy, joinTimedOut, uiVars>>

\* _open: self.cap = cv2.VideoCapture(self.url, cv2.CAP_FFMPEG)
\* The constructor returns a capture that is opened or not, or raises (then
\* _open returns False with self.cap as it was). The capture self.cap held
\* before loses its last reference and is released by its destructor.
OpenConstruct(t) ==
    /\ pc[t] = "open"
    /\ \/ \E h \in Handles, st \in {"open", "closed"} :
            /\ hstate[h] = "unused"
            /\ \A g \in Handles : g < h => hstate[g] # "unused"
            /\ hstate' = [g \in Handles |->
                            IF g = h THEN st
                            ELSE IF g = cap THEN "released" ELSE hstate[g]]
            /\ cap' = h
            /\ pc' = [pc EXCEPT ![t] = "open_return"]
       \/ /\ pc' = [pc EXCEPT ![t] = "open_failed"]
          /\ UNCHANGED <<cap, hstate>>
    /\ failedOn' = [failedOn EXCEPT ![t] = 0]
    /\ UNCHANGED <<running, thread, frame, last_ok, lock, nFrames, retry_delay,
                   local, mpc, surf, copied, fails, stored, storedAtCopy,
                   joinTimedOut, uiVars>>

\* _open: self.cap.set(cv2.CAP_PROP_BUFFERSIZE, 1); return self.cap.isOpened()
\* (self.cap is read again: an AttributeError on None is caught by _open's
\* except, which returns False); then in _loop, on success: retry_delay = 1.0
OpenReturn(t) ==
    /\ pc[t] = "open_return"
    /\ IF cap # 0 /\ IsOpened(cap)
       THEN /\ pc' = [pc EXCEPT ![t] = "read"]
            /\ retry_delay' = [retry_delay EXCEPT ![t] = InitialDelay]
            /\ fails' = [fails EXCEPT ![t] = 0]
       ELSE /\ pc' = [pc EXCEPT ![t] = "open_failed"]
            /\ UNCHANGED <<retry_delay, fails>>
    /\ UNCHANGED <<running, thread, cap, frame, last_ok, lock, hstate, nFrames,
                   local, mpc, surf, copied, failedOn, stored, storedAtCopy,
                   joinTimedOut, uiVars>>

\* (variant: after the sleep the open is retried without going back to the
\* while condition)
LoopOpenFailedNoPoll(t) ==
    /\ pc[t] = "open_failed"
    /\ last_ok' = FALSE
    /\ fails' = [fails EXCEPT ![t] = CountFail(fails[t])]
    /\ retry_delay' = [retry_delay EXCEPT ![t] = NextRetryDelay(retry_delay[t])]
    /\ pc' = [pc EXCEPT ![t] = "open"]
    /\ UNCHANGED <<running, thread, cap, frame, lock, hstate, nFrames, local,
                   mpc, surf, copied, failedOn, stored, storedAtCopy,
                   joinTimedOut, uiVars>>

\* if not ok: self.last_ok = False; time.sleep(retry_delay);
\*            retry_delay = min(5.0, retry_delay + 0.5); continue
LoopOpenFailed(t) ==
    /\ pc[t] = "open_failed"
    /\ last_ok' = FALSE
    /\ fails' = [fails EXCEPT ![t] = CountFail(fails[t])]
    /\ retry_delay' = [retry_delay EXCEPT ![t] = NextRetryDelay(retry_delay[t])]
    /\ pc' = [pc EXCEPT ![t] = "check"]
    /\ UNCHANGED <<running, thread, cap, frame, lock, hstate, nFrames, local,
                   mpc, surf, copied, failedOn, stored, storedAtCopy,
                   joinTimedOut, uiVars>>

\* ok, frame = self.cap.read(): self.cap None raises AttributeError, which
\* nothing catches; a capture that is not open yields (False, None); an open
\* one yields a frame or fails. On success: self.last_ok = True
LoopRead(t) ==
    /\ pc[t] = "read"
    /\ \/ /\ cap = 0
          /\ pc' = [pc EXCEPT ![t] = "crashed"]
          /\ UNCHANGED <<nFrames, local, failedOn, last_ok>>
       \/ /\ cap # 0 /\ IsOpened(cap) /\ nFrames < MaxFrames
          /\ nFrames' = nFrames + 1
          /\ local' = [local EXCEPT ![t] = Decoded(nFrames + 1)]
          /\ failedOn' = [failedOn EXCEPT ![t] = 0]
          /\ last_ok' = TRUE
          /\ pc' = [pc EXCEPT ![t] = "acquire"]
       \/ /\ cap # 0
          /\ failedOn' = [failedOn EXCEPT ![t] = cap]
          /\ pc' = [pc EXCEPT ![t] = "read_failed"]
          /\ UNCHANGED <<nFrames, local, last_ok>>
    /\ UNCHANGED <<running, thread, cap, frame, lock, hstate, retry_delay, mpc,
                   surf, copied, fails, stored, storedAtCopy,
                   joinTimedOut, uiVars>>

\* (variant: a failed read tears the connection down)
LoopReadFailedTeardown(t) ==
    /\ pc[t] = "read_failed"
    /\ last_ok' = FALSE
    /\ hstate' = IF cap # 0 THEN [hstate EXCEPT ![cap] = "released"] ELSE hstate
    /\ cap' = 0
    /\ pc' = [pc EXCEPT ![t] = "check"]
    /\ UNCHANGED <<running, thread, frame, lock, nFrames, retry_delay, local,
                   mpc, surf, copied, fails, failedOn, stored, storedAtCopy,
                   joinTimedOut, uiVars>>

\* if not ok or frame is None: self.last_ok = False; time.sleep(0.02); continue
LoopReadFailed(t) ==
    /\ pc[t] = "read_failed"
    /\ last_ok' = FALSE
    /\ pc' = [pc EXCEPT ![t] = "check"]
    /\ UNCHANGED <<running, thread, cap, frame, lock, hstate, nFrames,
                   retry_delay, local, mpc, surf, copied, fails, failedOn, stored,
                   storedAtCopy, joinTimedOut, uiVars>>

\* with self.lock:
LoopAcquire(t) ==
    /\ pc[t] = "acquire"
    /\ lock = Free
    /\ lock' = ByProducer(t)
    /\ pc' = [pc EXCEPT ![t] = "store"]
    /\ UNCHANGED <<running, thread, cap, frame, last_ok, hstate, nFrames,
                   retry_delay, local, mpc, surf, copied, fails, failedOn, stored,
                   storedAtCopy, joinTimedOut, uiVars>>

\* self.frame = frame
LoopStore(t) ==
    /\ pc[t] = "store"
    /\ frame' = StoreFrame(frame, local[t])
    /\ stored' = local[t].px[1]
    /\ pc' = [pc EXCEPT ![t] = "unlock"]
    /\ UNCHANGED <<running, thread, cap, last_ok, lock, hstate, nFrames,
                   retry_delay, local, mpc, surf, copied, fails, failedOn,
                   storedAtCopy, joinTimedOut, uiVars>>

\* (variant: the lock kept across the next iteration's open and read)
LoopUnlockLate(t) ==
    /\ pc[t] = "unlock"
    /\ local' = [local EXCEPT ![t] = None]
    /\ pc' = [pc EXCEPT ![t] = "check"]
    /\ UNCHANGED <<running, thread, cap, frame, last_ok, lock, hstate, nFrames,
                   retry_delay, mpc, surf, copied, fails, failedOn, stored,
                   storedAtCopy, joinTimedOut, uiVars>>

\* the with block ends
LoopUnlock(t) ==
    /\ pc[t] = "unlock"
    /\ lock' = Free
    /\ local' = [local EXCEPT ![t] = None]
    /\ pc' = [pc EXCEPT ![t] = "check"]
    /\ UNCHANGED <<running, thread, cap, frame, last_ok, hstate, nFrames,
                   retry_delay, mpc, surf, copied, fails, failedOn, stored,
                   storedAtCopy, joinTimedOut, uiVars>>

Producer(t) ==
    \/ LoopCheck(t) \/ LoopTestNone(t) \/ LoopTestOpened(t)
    \/ OpenConstruct(t) \/ OpenReturn(t) \/ LoopOpenFailed(t)
    \/ LoopRead(t) \/ LoopReadFailed(t)
    \/ LoopAcquire(t) \/ LoopStore(t) \/ LoopUnlock(t)

CamInit ==
    /\ running = FALSE
    /\ thread = 0
    /\ cap = 0
    /\ frame = None
    /\ last_ok = FALSE
    /\ lock = Free
    /\ hstate = [h \in Handles |-> "unused"]
    /\ nFrames = 0
    /\ pc = [t \in Threads |-> "unborn"]
    /\ retry_delay = [t \in Threads |-> InitialDelay]
    /\ local = [t \in Threads |-> None]
    /\ mpc = "idle"
    /\ surf = None
    /\ copied = None
    /\ fails = [t \in Threads |-> 0]
    /\ failedOn = [t \in Threads |-> 0]
    /\ stored = 0
    /\ storedAtCopy = 0
    /\ joinTimedOut = FALSE

(* ------------------------- geometry and masks ------------------------- *)
RECURSIVE Gcd(_, _)
Gcd(a, b) == IF b = 0 THEN a ELSE Gcd(b, a % b)

Abs(a) == IF a < 0 THEN -a ELSE a

\* the exact value num/den (den > 0), in lowest terms
Frac(num, den) ==
    LET g == Gcd(Abs(num), den) IN [num |-> num \div g, den |-> den \div g]

\* int(x) for x >= 0
IntPart(x) == x.num \div x.den

\* (variant: the wedge drawn from -angle_deg to +angle_deg)
MakeWedgeMaskWide(size, angle_deg) ==
    [shape |-> "wedge", size |-> size,
     R |-> Min(size[1], size[2]) \div 2,
     cx |-> size[1] \div 2, cy |-> size[2] \div 2,
     steps |-> Max(MinSteps, IntPart(angle_deg)),
     a0 |-> Frac(-angle_deg.num, angle_deg.den),
     a1 |-> Frac(angle_deg.num, angle_deg.den)]

\* make_wedge_mask(size, angle_deg): the polygon fan is kept as its apex, its
\* radius, its number of arc steps and its first and last angle
MakeWedgeMask(size, angle_deg) ==
    [shape |-> "wedge", size |-> size,
     R |-> Min(size[1], size[2]) \div 2,
     cx |-> size[1] \div 2, cy |-> size[2] \div 2,
     steps |-> Max(MinSteps, IntPart(angle_deg)),
     a0 |-> Frac(-angle_deg.num, 2 * angle_deg.den),
     a1 |-> Frac(angle_deg.num, 2 * angle_deg.den)]

\* make_circle_mask(size)
MakeCircleMask(size) ==
    [shape |-> "disk", size |-> size,
     R |-> Min(size[1], size[2]) \div 2,
     cx |-> size[1] \div 2, cy |-> size[2] \div 2]

\* setup_geometry(width, height) with SLICES = n: the six globals it assigns
SetupGeometry(width, height, n) ==
    LET r == Min(width, height) \div 2 - Margin
        bs == <<2 * r, 2 * r>>
        sa == Frac(FullTurn, n)
    IN [R |-> r, base_size |-> bs,
        center |-> <<width \div 2, height \div 2>>,
        slice_angle |-> sa,
        wedge_mask |-> MakeWedgeMask(bs, sa),
        circle_mask |-> MakeCircleMask(bs)]

\* the globals take the values setup_geometry computed
Assign(g) ==
    /\ R' = g.R
    /\ base_size' = g.base_size
    /\ center' = g.center
    /\ slice_angle' = g.slice_angle
    /\ wedge_mask' = g.wedge_mask
    /\ circle_mask' = g.circle_mask

\* load_and_scale(image_paths[i], size)
LoadAndScale(i, size) == [image |-> i, size |-> size]

\* (variant: the even sectors flipped instead of the odd ones)
RenderKaleidoscopeFlipEven(source_img, theta_deg) ==
    [source |-> source_img, theta |-> theta_deg,
     n |-> SLICES, canvas |-> base_size, angle |-> slice_angle,
     wedge |-> wedge_mask, disk |-> circle_mask,
     sectors |-> [i \in 0..(SLICES - 1) |->
                    [flipped |-> (i % 2) = 0,
                     rotation |-> Frac(-i * slice_angle.num, slice_angle.den)]]]

\* render_kaleidoscope(source_img, theta_deg), reading the globals SLICES,
\* base_size, slice_angle, wedge_mask and circle_mask: sector i is the base
\* wedge, flipped when i is odd, rotated by -i * slice_angle
RenderKaleidoscope(source_img, theta_deg) ==
    [source |-> source_img, theta |-> theta_deg,
     n |-> SLICES, canvas |-> base_size, angle |-> slice_angle,
     wedge |-> wedge_mask, disk |-> circle_mask,
     sectors |-> [i \in 0..(SLICES - 1) |->
                    [flipped |-> (i % 2) # 0,
                     rotation |-> Frac(-i * slice_angle.num, slice_angle.den)]]]

(* --------------------------- rotation angle --------------------------- *)
\* The angle t is a double. It is kept as m, the value exact arithmetic gives
\* it, in thousandths of a degree; off, by how many units in the last place
\* the double lies above the double nearest to that value; and followed,
\* whether off is known: it is for 0.0, for 360.0 and for an angle that is
\* one product speed * dt added to 0.0.
Turn == FullTurn * 1000

FloatZero == [m |-> 0, off |-> 0, followed |-> TRUE]
FloatTurn == [m |-> Turn, off |-> 0, followed |-> TRUE]

\* the pairs <<v, ms>>, v = 2, 4, ..., 60 and ms in FrameTimes, for which the
\* double product float(v) * (ms / 1000.0) is one unit in the last place below
\* the double nearest to v * ms / 1000; for every other pair of that range
\* it is that double
RoundedDown ==
    {<<6, 18>>, <<12, 18>>, <<18, 18>>, <<22, 18>>, <<24, 18>>, <<26, 18>>,
     <<30, 18>>, <<36, 18>>, <<38, 18>>, <<42, 18>>, <<44, 18>>, <<48, 18>>,
     <<50, 18>>, <<52, 18>>, <<58, 18>>, <<60, 18>>, <<30, 27>>, <<60, 27>>}

\* SPEED_DEG_PER_SEC * dt for v > 0: units in the last place off the nearest double
UlpsOff(v, ms) == IF <<v, ms>> \in RoundedDown THEN -1 ELSE 0

\* (t + SPEED_DEG_PER_SEC * dt) % 360.0 in doubles: the values it can take.
\* Python's float % is fmod, and a result of the other sign than the divisor
\* has the divisor added to it, which rounds.
AdvanceAngle(t, v, ms) ==
    LET s == t.m + v * ms IN
    IF v = 0
    THEN \* t + 0.0 is t; 360.0 % 360.0 is 0.0
         {IF t.m = Turn THEN FloatZero ELSE t}
    ELSE IF s = 0
    THEN \* t and the product cancel: the sum is the difference of two doubles
         \* next to the same value, computed exactly; a sum below zero is
         \* less than half a unit in the last place of 360.0 away from it,
         \* and adding 360.0 rounds to 360.0
         LET d == t.off - UlpsOff(-v, ms)
             above == [m |-> 0, off |-> 0, followed |-> FALSE]
         IN IF t.followed
            THEN {IF d < 0 THEN FloatTurn ELSE IF d = 0 THEN FloatZero ELSE above}
            ELSE {FloatTurn, FloatZero, above}
    ELSE IF t = FloatZero /\ v > 0 /\ s < Turn
    THEN \* 0.0 + x is x, and x % 360.0 is x
         {[m |-> s, off |-> UlpsOff(v, ms), followed |-> TRUE]}
    ELSE \* away from a cancellation rounding moves the sum by far less than
         \* a thousandth of a degree
         {[m |-> s % Turn, off |-> 0, followed |-> FALSE]}

\* (variant: the angle advanced on every tick)
AdvanceAlways(p, t, v, ms) == AdvanceAngle(t, v, ms)

\* if not paused: t = (t + SPEED_DEG_PER_SEC * dt) % 360.0
AdvanceUnlessPaused(p, t, v, ms) == IF p THEN {t} ELSE AdvanceAngle(t, v, ms)

(* ------------------------------- trails ------------------------------- *)
\* trail_surface is kept as its size, what it was last filled with, and whose
\* pixels lie on it: cur, composites drawn since the last change of slice
\* count, size or source; old, composites drawn before it; notice, the
\* waiting text; faded, whether a decay step has acted on it since it was
\* created or filled.
Surface(size, fill) ==
    [size |-> size, fill |-> fill, cur |-> FALSE, old |-> FALSE,
     notice |-> FALSE, faded |-> FALSE]

\* trail_surface.blit(fade_cover, (0, 0)) (kaleidoscope_rtsp.py),
\* trail_surface.fill((0, 0, 0, FADE_ALPHA), BLEND_RGBA_SUB) (kaleidoscope.py)
Decayed(tr) == [tr EXCEPT !.faded = TRUE]

\* trail_surface.fill(BG_COLOR)
Filled(tr) == Surface(tr.size, "bg")

\* the slice count, size or source changed and the surface was left alone
Kept(tr) == [tr EXCEPT !.old = tr.old \/ tr.cur, !.cur = FALSE]

\* trail_surface.blit(kaleido, ...)
Composited(tr) == [tr EXCEPT !.cur = TRUE, !.notice = FALSE]

\* draw_centered(trail_surface, "Waiting for ...", ...)
NoticeDrawn(tr) == [tr EXCEPT !.notice = TRUE]

(* ---------------------------- start of a run -------------------------- *)
DefaultDesktop == <<1920, 1080>>
Desktops == {DefaultDesktop, <<1080, 1920>>}

\* frame times clock.tick(60) reports, in ms
FrameTimes == {18, 27}
\* a run in which every frame takes the same time
SteadyFrameTimes == {18}

Sources == 1..NumSources

\* module level of the program p up to the call of splash_screen
UiInit(p, d) ==
    /\ prog = p
    /\ desktop = d
    /\ mode = "splash"
    /\ loop_running = TRUE
    /\ SLICES = InitialSlices
    /\ screen = <<WIDTH, HEIGHT>>
    /\ fullscreen = FALSE
    /\ LET g == SetupGeometry(WIDTH, HEIGHT, InitialSlices) IN
       /\ R = g.R /\ base_size = g.base_size /\ center = g.center
       /\ slice_angle = g.slice_angle /\ wedge_mask = g.wedge_mask
       /\ circle_mask = g.circle_mask
       /\ raw_image = IF p = "static" THEN LoadAndScale(1, g.base_size) ELSE None
    /\ trail = Surface(<<WIDTH, HEIGHT>>, IF p = "static" THEN "black" ELSE "bg")
    /\ theta = FloatZero
    /\ speed = IF p = "static" THEN StaticSpeed ELSE RtspSpeed
    /\ paused = FALSE
    /\ idx = 1
    /\ hasFrame = [i \in Sources |-> FALSE]
    /\ lastOk = [i \in Sources |-> FALSE]
    /\ cams = IF p = "static" THEN "none" ELSE "started"
    /\ nTicks = 0
    /\ lastCall = None

Init == CamInit /\ UiInit("rtsp", DefaultDesktop)

\* the program starts each camera once (kaleidoscope_rtsp.py 286)
Start == StartCamera(1)

\* a caller that starts the camera again after stop()
Restart == StartCamera(MaxThreads)

(* ----------------------------- render loop ---------------------------- *)
\* cam.get_surface(size) as the render loop sees it: None until the camera's
\* slot holds a frame
GetSurface(i, size) == IF hasFrame[i] THEN [camera |-> i, size |-> size] ELSE None

InitialSpeed == IF prog = "static" THEN StaticSpeed ELSE RtspSpeed

\* a producer reads a frame and stores it in its camera's slot: a first
\* frame, or the first after a failure (self.last_ok = True; self.frame = frame)
FrameArrives(i) ==
    /\ prog = "rtsp" /\ cams = "started" /\ mode \in {"splash", "events"}
    /\ ~hasFrame[i] \/ ~lastOk[i]
    /\ hasFrame' = [hasFrame EXCEPT ![i] = TRUE]
    /\ lastOk' = [lastOk EXCEPT ![i] = TRUE]
    /\ lastCall' = None
    /\ UNCHANGED <<prog, desktop, mode, loop_running, SLICES, screen, fullscreen,
                   geomVars, trail, theta, speed, paused, idx, raw_image, cams,
                   nTicks, camVars>>

\* a producer's open or read fails after it had delivered frames:
\* self.last_ok = False, the slot keeps the frame stored last
SourceFails(i) ==
    /\ prog = "rtsp" /\ cams = "started" /\ mode \in {"splash", "events"}
    /\ lastOk[i]
    /\ lastOk' = [lastOk EXCEPT ![i] = FALSE]
    /\ lastCall' = None
    /\ UNCHANGED <<prog, desktop, mode, loop_running, SLICES, screen, fullscreen,
                   geomVars, trail, theta, speed, paused, idx, raw_image,
                   hasFrame, cams, nTicks, camVars>>

\* splash_screen: any key but ESC and Q, or a mouse button
SplashStart ==
    /\ mode = "splash"
    /\ mode' = "events"
    /\ lastCall' = None
    /\ UNCHANGED <<prog, desktop, loop_running, SLICES, screen, fullscreen,
                   geomVars, trail, theta, speed, paused, idx, raw_image,
                   hasFrame, lastOk, cams, nTicks, camVars>>

\* splash_screen: QUIT, ESC or Q: pygame.quit(); sys.exit(0)
SplashQuit ==
    /\ mode = "splash"
    /\ mode' = "exited"
    /\ lastCall' = None
    /\ UNCHANGED <<prog, desktop, loop_running, SLICES, screen, fullscreen,
                   geomVars, trail, theta, speed, paused, idx, raw_image,
                   hasFrame, lastOk, cams, nTicks, camVars>>

\* QUIT, K_ESCAPE, K_q: running = False
Quit ==
    /\ mode = "events"
    /\ loop_running' = FALSE
    /\ lastCall' = None
    /\ UNCHANGED <<prog, desktop, mode, SLICES, screen, fullscreen, geomVars,
                   trail, theta, speed, paused, idx, raw_image, hasFrame, lastOk, cams,
                   nTicks, camVars>>

\* (variant: switching the source also resumes a paused animation)
KeySpaceResume ==
    /\ mode = "events"
    /\ idx' = (idx % NumSources) + 1
    /\ paused' = FALSE
    /\ IF prog = "rtsp"
       THEN /\ trail' = Filled(trail)
            /\ UNCHANGED raw_image
       ELSE /\ raw_image' = LoadAndScale(idx', base_size)
            /\ trail' = IF idx' = idx THEN trail ELSE Kept(trail)
    /\ lastCall' = None
    /\ UNCHANGED <<prog, desktop, mode, loop_running, SLICES, screen, fullscreen,
                   geomVars, theta, speed, hasFrame, lastOk, cams, nTicks,
                   camVars>>

\* K_SPACE
KeySpace ==
    /\ mode = "events"
    /\ idx' = (idx % NumSources) + 1
    /\ IF prog = "rtsp"
       THEN /\ trail' = Filled(trail)
            /\ UNCHANGED raw_image
       ELSE /\ raw_image' = LoadAndScale(idx', base_size)
            /\ trail' = IF idx' = idx THEN trail ELSE Kept(trail)
    /\ lastCall' = None
    /\ UNCHANGED <<prog, desktop, mode, loop_running, SLICES, screen, fullscreen,
                   geomVars, theta, speed, paused, hasFrame, lastOk, cams, nTicks,
                   camVars>>

\* K_a
KeyA ==
    /\ mode = "events"
    /\ paused' = ~paused
    /\ lastCall' = None
    /\ UNCHANGED <<prog, desktop, mode, loop_running, SLICES, screen, fullscreen,
                   geomVars, trail, theta, speed, idx, raw_image, hasFrame, lastOk, cams,
                   nTicks, camVars>>

\* K_RIGHT, K_EQUALS, K_PLUS, K_KP_PLUS
KeyRight ==
    /\ mode = "events"
    /\ speed + SpeedStep <= InitialSpeed + SpeedStep * MaxSpeedSteps
    /\ speed' = speed + SpeedStep
    /\ lastCall' = None
    /\ UNCHANGED <<prog, desktop, mode, loop_running, SLICES, screen, fullscreen,
                   geomVars, trail, theta, paused, idx, raw_image, hasFrame, lastOk, cams,
                   nTicks, camVars>>

\* K_LEFT, K_MINUS, K_UNDERSCORE, K_KP_MINUS, followed down to steps presses
\* below the initial speed
KeyLeftWithin(steps) ==
    /\ mode = "events"
    /\ speed - SpeedStep >= InitialSpeed - SpeedStep * steps
    /\ speed' = speed - SpeedStep
    /\ lastCall' = None
    /\ UNCHANGED <<prog, desktop, mode, loop_running, SLICES, screen, fullscreen,
                   geomVars, trail, theta, paused, idx, raw_image, hasFrame, lastOk, cams,
                   nTicks, camVars>>

KeyLeft == KeyLeftWithin(MaxSpeedSteps)

\* LEFT held down until the rotation reverses
KeyLeftFar == KeyLeftWithin(MaxLeftPresses)

\* K_p: the RTSP program renders the active camera's frame and saves it; the
\* static program saves trail_surface
KeyP ==
    /\ mode = "events"
    /\ lastCall' =
          IF prog = "rtsp" /\ GetSurface(idx, base_size) # None
          THEN [kind |-> "snapshot",
                out |-> RenderKaleidoscope(GetSurface(idx, base_size), theta)]
          ELSE None
    /\ UNCHANGED <<prog, desktop, mode, loop_running, SLICES, screen, fullscreen,
                   geomVars, trail, theta, speed, paused, idx, raw_image,
                   hasFrame, lastOk, cams, nTicks, camVars>>

\* (variant: the slice count changed, the geometry left as it was)
KeyUpNoRebuild ==
    /\ mode = "events"
    /\ SLICES + SliceStep <= MaxSlices
    /\ SLICES' = Max(MinSlices, SLICES + SliceStep)
    /\ IF prog = "rtsp"
       THEN /\ trail' = Filled(trail)
            /\ UNCHANGED raw_image
       ELSE /\ raw_image' = LoadAndScale(idx, base_size)
            /\ trail' = Kept(trail)
    /\ lastCall' = None
    /\ UNCHANGED <<prog, desktop, mode, loop_running, screen, fullscreen, geomVars,
                   theta, speed, paused, idx, hasFrame, lastOk, cams, nTicks, camVars>>

\* K_UP
KeyUp ==
    /\ mode = "events"
    /\ SLICES + SliceStep <= MaxSlices
    /\ SLICES' = Max(MinSlices, SLICES + SliceStep)
    /\ Assign(SetupGeometry(screen[1], screen[2], SLICES'))
    /\ IF prog = "rtsp"
       THEN /\ trail' = Filled(trail)
            /\ UNCHANGED raw_image
       ELSE /\ raw_image' = LoadAndScale(idx, base_size')
            /\ trail' = Kept(trail)
    /\ lastCall' = None
    /\ UNCHANGED <<prog, desktop, mode, loop_running, screen, fullscreen, theta,
                   speed, paused, idx, hasFrame, lastOk, cams, nTicks, camVars>>

\* (variant: the slice count lowered by one)
KeyDownByOne ==
    /\ mode = "events"
    /\ SLICES' = Max(MinSlices, SLICES - 1)
    /\ Assign(SetupGeometry(screen[1], screen[2], SLICES'))
    /\ IF prog = "rtsp"
       THEN /\ trail' = Filled(trail)
            /\ UNCHANGED raw_image
       ELSE /\ raw_image' = LoadAndScale(idx, base_size')
            /\ trail' = IF SLICES' = SLICES THEN trail ELSE Kept(trail)
    /\ lastCall' = None
    /\ UNCHANGED <<prog, desktop, mode, loop_running, screen, fullscreen, theta,
                   speed, paused, idx, hasFrame, lastOk, cams, nTicks, camVars>>

\* K_DOWN
KeyDown ==
    /\ mode = "events"
    /\ SLICES' = Max(MinSlices, SLICES - SliceStep)
    /\ Assign(SetupGeometry(screen[1], screen[2], SLICES'))
    /\ IF prog = "rtsp"
       THEN /\ trail' = Filled(trail)
            /\ UNCHANGED raw_image
       ELSE /\ raw_image' = LoadAndScale(idx, base_size')
            /\ trail' = IF SLICES' = SLICES THEN trail ELSE Kept(trail)
    /\ lastCall' = None
    /\ UNCHANGED <<prog, desktop, mode, loop_running, screen, fullscreen, theta,
                   speed, paused, idx, hasFrame, lastOk, cams, nTicks, camVars>>

\* K_DOWN pressed to take back a K_UP
KeyDownNear == SLICES > InitialSlices /\ KeyDown

\* K_f
KeyF ==
    /\ mode = "events"
    /\ fullscreen' = ~fullscreen
    /\ screen' = IF fullscreen' THEN desktop ELSE <<WIDTH, HEIGHT>>
    /\ Assign(SetupGeometry(screen'[1], screen'[2], SLICES))
    /\ IF prog = "rtsp"
       THEN /\ trail' = Surface(screen', "bg")
            /\ UNCHANGED raw_image
       ELSE /\ raw_image' = LoadAndScale(idx, base_size')
            /\ trail' = Surface(screen', "transparent")
    /\ lastCall' = None
    /\ UNCHANGED <<prog, desktop, mode, loop_running, SLICES, theta, speed,
                   paused, idx, hasFrame, lastOk, cams, nTicks, camVars>>

\* the rest of a loop iteration after its events: the angle advances unless
\* paused, the trail decays, the frame is composited (or the waiting text
\* drawn), and the while condition is tested; dts: the frame times followed
TickWith(dts) ==
    /\ mode = "events"
    /\ nTicks < MaxTicks \/ ~loop_running
    /\ \E dt \in dts : theta' \in AdvanceUnlessPaused(paused, theta, speed, dt)
    /\ LET src == IF prog = "rtsp" THEN GetSurface(idx, base_size) ELSE raw_image
       IN IF src = None
          THEN /\ trail' = NoticeDrawn(Filled(Decayed(trail)))
               /\ lastCall' = None
          ELSE /\ trail' = Composited(Decayed(trail))
               /\ lastCall' = [kind |-> "tick",
                               out |-> RenderKaleidoscope(src, theta')]
    /\ nTicks' = IF nTicks < MaxTicks THEN nTicks + 1 ELSE nTicks
    /\ mode' = IF loop_running THEN "events" ELSE "cleanup"
    /\ UNCHANGED <<prog, desktop, loop_running, SLICES, screen, fullscreen,
                   geomVars, speed, paused, idx, raw_image, hasFrame, lastOk, cams,
                   camVars>>

Tick == TickWith(FrameTimes)

TickSteady == TickWith(SteadyFrameTimes)

\* after the loop: for cam in CAMERAS: cam.stop(); pygame.quit(); sys.exit()
Cleanup ==
    /\ mode = "cleanup"
    /\ cams' = IF prog = "rtsp" THEN "stopped" ELSE cams
    /\ mode' = "exited"
    /\ lastCall' = None
    /\ UNCHANGED <<prog, desktop, loop_running, SLICES, screen, fullscreen,
                   geomVars, trail, theta, speed, paused, idx, raw_image,
                   hasFrame, lastOk, nTicks, camVars>>

Next ==
    \/ Start
    \/ StopSignal \/ StopJoin \/ StopTest \/ StopRelease \/ StopClear
    \/ GetCall \/ GetAcquire \/ GetCopy \/ GetRelease \/ GetReturn
    \/ \E t \in Threads : Producer(t)

Spec == Init /\ [][Next]_vars

\* start() and stop() in any order, no get_surface
NextRestart ==
    \/ Restart
    \/ StopSignal \/ StopJoin \/ StopTest \/ StopRelease \/ StopClear
    \/ \E t \in Threads : Producer(t)

SpecRestart == Init /\ [][NextRestart]_vars

\* The caller's critical section is straight-line code, every step of a
\* producer returns, and a producer waiting for the lock gets it once the
\* caller has let go of it.
Fairness ==
    /\ WF_vars(GetCopy) /\ WF_vars(GetRelease)
    /\ \A t \in Threads : WF_vars(Producer(t)) /\ SF_vars(LoopAcquire(t))

UIInit == CamInit /\ \E p \in {"static", "rtsp"}, d \in Desktops : UiInit(p, d)

\* the keys that change what is drawn and where
NextUI ==
    \/ SplashStart \/ SplashQuit
    \/ KeyUp \/ KeyDown \/ KeyF \/ KeySpace \/ KeyP \/ Quit
    \/ Tick \/ Cleanup
    \/ \E i \in Sources : FrameArrives(i)

SpecUI == UIInit /\ [][NextUI]_vars

\* the same, with connections that go down and come back
NextSource ==
    \/ NextUI
    \/ \E i \in Sources : SourceFails(i)

SpecSource == UIInit /\ [][NextSource]_vars

\* the keys that change the animation
NextAnim ==
    \/ SplashStart \/ SplashQuit
    \/ KeyA \/ KeyRight \/ KeyLeft \/ Quit
    \/ Tick \/ Cleanup
    \/ \E i \in Sources : FrameArrives(i)

SpecAnim == UIInit /\ [][NextAnim]_vars

\* the animation keys, the speed lowered through zero
NextSpeed ==
    \/ SplashStart \/ SplashQuit
    \/ KeyA \/ KeyRight \/ KeyLeftFar \/ Quit
    \/ Tick \/ Cleanup

SpecSpeed == UIInit /\ [][NextSpeed]_vars

\* every handler of the render loop, at a steady frame rate, the slice count
\* raised and taken back, the cameras delivering nothing
KeysInit == CamInit /\ \E p \in {"static", "rtsp"} : UiInit(p, DefaultDesktop)

NextKeys ==
    \/ SplashStart \/ SplashQuit
    \/ KeySpace \/ KeyA \/ KeyRight \/ KeyLeft \/ KeyP
    \/ KeyUp \/ KeyDownNear \/ KeyF \/ Quit
    \/ TickSteady \/ Cleanup

SpecKeys == KeysInit /\ [][NextKeys]_vars

\* The RTSP program. The event list of an iteration is finite and nothing in
\* the rest of the loop body or in the code after the loop blocks.
SpecKeysLive ==
    Init /\ [][NextKeys]_vars /\ WF_vars(TickSteady) /\ WF_vars(Cleanup)

SpecLive == Init /\ [][Next]_vars /\ Fairness

(* ============================== claims ================================ *)

\* C1: get_surface returns None exactly when no frame had been stored at the
\* moment it took its copy under the lock; otherwise it returns the content of
\* the frame stored last at that moment. While the caller still holds the lock
\* after the copy, the copy is the content of the frame stored last.
C1_ReturnsLatestStored ==
    /\ mpc = "gs_release" =>
          /\ (copied = None <=> stored = 0)
          /\ (stored # 0 => copied.px = Decoded(stored).px)
          /\ storedAtCopy = stored
    /\ mpc = "idle" =>
          /\ (surf = None <=> storedAtCopy = 0)
          /\ (storedAtCopy # 0 =>
                 /\ surf.px = Decoded(storedAtCopy).px
                 /\ surf.layout = "RGB"
                 /\ surf.size = base_size)

\* a get_surface that returned the second frame stored
C1_Witness ==
    /\ mpc = "idle" /\ surf # None /\ storedAtCopy = nFrames /\ nFrames > 1

\* C2: the lock is held by a producer only between its acquire and the end of
\* the slot write, and by the caller only around its copy; so whenever
\* get_surface waits for the lock, the holder is at the slot write, not in an
\* open, a read or a sleep.
C2_LockOnlyAroundSlot ==
    /\ lock.who = "producer" => pc[lock.tid] \in {"store", "unlock"}
    /\ lock.who = "main" => mpc \in {"gs_copy", "gs_release"}
    /\ \A t \in Threads : pc[t] \in {"store", "unlock"} => lock = ByProducer(t)

\* get_surface called while a producer is inside its slot write
C2_Witness == mpc = "gs_acquire" /\ lock.who = "producer"

\* C3: what get_surface copies and returns comes whole from one producer
\* write, and no step of a producer changes what get_surface has returned.
Whole(f) == f = None \/ (f.px[1] = f.px[2] /\ f.px[1] \in 1..nFrames)

C3_Snapshot ==
    /\ [](Whole(copied) /\ Whole(surf))
    /\ [][(\E t \in Threads : pc'[t] # pc[t]) => surf' = surf]_vars

\* a surface in the caller's hands while a later frame is already in the slot
C3_Witness == mpc = "idle" /\ surf # None /\ stored # 0 /\ surf.px[1] # stored

\* C4: the delay slept after the k-th consecutive failed open
Delay(k) == Min(MaxDelay, InitialDelay + DelayStep * (k - 1))

\* C4: a thread that has failed to open k-1 times in a row will sleep Delay(k)
\* after the next failure (1.0 s after a success or at the start); a failed
\* open leads back to the while condition, which goes on while running holds.
C4_Backoff ==
    /\ [](\A t \in Threads : Alive(t) => retry_delay[t] = Delay(fails[t] + 1))
    /\ [][\A t \in Threads :
            /\ pc[t] = "open_failed" => pc'[t] \in {"open_failed", "check"}
            /\ (pc[t] = "check" /\ running) => pc'[t] \in {"check", "test_none"}]_vars

\* a thread about to sleep the capped delay
C4_Witness ==
    \E t \in Threads :
        pc[t] = "open_failed" /\ retry_delay[t] = MaxDelay /\ fails[t] + 1 < MaxFails

\* C5: the step that handles a failed read marks the source not ok and leaves
\* the stored frame, self.cap and every capture as they are, and goes back to
\* the while condition; the thread gets to open again only when the capture it
\* failed on is no longer self.cap or no longer open.
C5_ReadFailureKeepsConnection ==
    /\ [][\A t \in Threads : (pc[t] = "read_failed" /\ pc'[t] # pc[t]) =>
            /\ ~last_ok'
            /\ frame' = frame /\ cap' = cap /\ hstate' = hstate
            /\ pc'[t] = "check"]_vars
    /\ [](\A t \in Threads : (pc[t] = "open" /\ failedOn[t] # 0) =>
            (cap # failedOn[t] \/ ~IsOpened(failedOn[t])))

\* a thread about to read again on the capture its last read failed on
C5_Witness ==
    \E t \in Threads :
        pc[t] = "read" /\ failedOn[t] # 0 /\ cap = failedOn[t] /\ IsOpened(cap)

\* C6: during stop() the running flag is already cleared at the join and at
\* the release, and the release happens only when there is no thread, or the
\* joined thread is dead, or the join timed out.
C6_StopOrder ==
    /\ mpc \in {"stop_join", "stop_test", "stop_release", "stop_clear"} => ~running
    /\ mpc \in {"stop_release", "stop_clear"} =>
          (thread = 0 \/ ~Alive(thread) \/ joinTimedOut)

\* a capture released by stop() after the producer had exited in time
C6_Witness ==
    /\ mpc = "stop_clear" /\ cap # 0 /\ hstate[cap] = "released"
    /\ thread # 0 /\ pc[thread] = "done" /\ ~joinTimedOut

\* C7: once the running flag is cleared, every producer thread that is alive
\* eventually is not.
C7_ProducerExits ==
    \A t \in Threads : (~running /\ Alive(t)) ~> ~Alive(t)

\* a thread that left the loop at the while condition after failed opens
C7_Witness == \E t \in Threads : pc[t] = "done" /\ fails[t] > 0

\* C8: when no start() or stop() is under way, at most one thread is alive
C8_AtMostOneProducer ==
    mpc = "idle" => Cardinality({t \in Threads : Alive(t)}) <= 1

\* C9: the slice count, and the count the geometry and the wedge mask were
\* built for, is an even integer >= 2 in every state of the render loop.
EvenCount(n) == n >= MinSlices /\ n % 2 = 0

C9_SlicesEvenAtLeastTwo ==
    /\ EvenCount(SLICES)
    /\ \E n \in MinSlices..(MaxSlices + SliceStep) :
          /\ EvenCount(n)
          /\ slice_angle.num * n = FullTurn * slice_angle.den
          /\ wedge_mask.a1.num * 2 * n = FullTurn * wedge_mask.a1.den

\* the wedge mask built for two slices (a half turn), in the running loop
C9_Witness ==
    /\ mode = "events" /\ SLICES = MinSlices
    /\ wedge_mask = MakeWedgeMask(base_size, Frac(FullTurn, MinSlices))

\* the geometry that belongs to slice count n and window size scr
MatchesGeometry(n, scr, angle, wedge, disk, canvas) ==
    /\ angle.num * n = FullTurn * angle.den
    /\ canvas = <<2 * (Min(scr[1], scr[2]) \div 2 - Margin),
                  2 * (Min(scr[1], scr[2]) \div 2 - Margin)>>
    /\ wedge.size = canvas /\ disk.size = canvas
    /\ wedge.a1.num * 2 * n = FullTurn * wedge.a1.den
    /\ wedge.a0.num = -wedge.a1.num /\ wedge.a0.den = wedge.a1.den
    /\ wedge.R = canvas[1] \div 2 /\ disk.R = canvas[1] \div 2

\* C10: whenever the loop is between two handlers, and at every call of
\* render_kaleidoscope (tick and snapshot), the slice angle, both masks and
\* the canvas size are those of the current slice count and window size.
C10_GeometryMatches ==
    /\ screen = (IF fullscreen THEN desktop ELSE <<WIDTH, HEIGHT>>)
    /\ mode = "events" =>
          MatchesGeometry(SLICES, screen, slice_angle, wedge_mask, circle_mask,
                          base_size)
    /\ lastCall # None =>
          /\ lastCall.out.n = SLICES
          /\ MatchesGeometry(SLICES, screen, lastCall.out.angle,
                             lastCall.out.wedge, lastCall.out.disk,
                             lastCall.out.canvas)

\* a snapshot rendered after the slice count and the window size changed
C10_Witness ==
    /\ lastCall # None /\ lastCall.kind = "snapshot"
    /\ SLICES # InitialSlices /\ fullscreen

\* C11: in the render loop of either program, when a tick draws its composite
\* into the trail, the trail holds no pixels of a composite drawn before the
\* last change of the slice count, the window size or the active source: each
\* such change has cleared the trail before that composite.
C11_TrailClearedOnChange ==
    (lastCall # None /\ lastCall.kind = "tick") => ~trail.old

\* C12: a tick on which the active camera returns no frame applies the decay
\* step to the trail and draws the waiting text on the decayed trail: what lay
\* on the trail before the tick is still there, faded, under the text.
C12_PlaceholderOnDecayedTrail ==
    [][(Tick /\ prog = "rtsp" /\ GetSurface(idx, base_size) = None)
          => trail' = NoticeDrawn(Decayed(trail))]_vars

\* C13: in the RTSP program a tick draws a kaleidoscope only from a camera
\* whose source is available (its latest open and read succeeded); while the
\* active camera has no frame yet or its connection is down, also after it
\* had delivered frames, the tick draws the waiting text instead.
C13_PlaceholderWhenDown ==
    (prog = "rtsp" /\ lastCall # None /\ lastCall.kind = "tick") => lastOk[idx]

\* the states of the loop between its handlers
Running == mode = "events" /\ loop_running /\ ~paused
Paused == mode = "events" /\ loop_running /\ paused

\* a step that changes nothing of the animation, the picture or the loop
\* but the paused flag
IsToggle ==
    /\ mode = "events" /\ paused' = ~paused
    /\ UNCHANGED <<mode, loop_running, theta, speed, SLICES, screen, fullscreen,
                   geomVars, idx, raw_image, trail, nTicks, cams>>

\* a step that ends a loop iteration
IsTick == mode = "events" /\ (nTicks' # nTicks \/ mode' = "cleanup")

\* C14: the render loop moves between Splash, Running and Paused. Splash is
\* left only to Running (a key or mouse button press) or to termination (a
\* quit signal); the paused flag is changed by the pause toggle only, which
\* turns Running into Paused and back; once a quit signal has been seen the
\* loop never runs again: the iteration under way ends, the code after the
\* loop runs and the program has terminated, for good.
C14_StateMachine ==
    /\ [][mode = "splash" => (mode' = "splash" \/ Running' \/ mode' = "exited")]_vars
    /\ [][paused' # paused => IsToggle]_vars
    /\ [][(Running /\ IsToggle => Paused') /\ (Paused /\ IsToggle => Running')]_vars
    /\ [][~loop_running => ~loop_running']_vars
    /\ [][(mode = "events" /\ ~loop_running) => mode' \in {"events", "cleanup"}]_vars
    /\ [][mode = "cleanup" => mode' = "exited"]_vars
    /\ [][mode = "exited" => FALSE]_vars
    /\ (~loop_running ~> mode = "exited")

\* terminated after a quit signal given while paused, ticks having run
C14_Witness == mode = "exited" /\ paused /\ ~loop_running /\ nTicks > 0

\* C15: the angle is changed only by the tick of a loop iteration, and only
\* while not paused; a tick while paused renders with the angle as it was;
\* no key handler (a step of the loop that is not a tick) changes the angle.
C15_AngleOnlyByTick ==
    /\ [][theta' # theta => (~paused /\ IsTick)]_vars
    /\ [][(IsTick /\ paused) =>
            /\ theta' = theta
            /\ lastCall' # None => lastCall'.out.theta = theta]_vars
    /\ [][(mode = "events" /\ ~IsTick) => theta' = theta]_vars

\* a tick that rendered while paused, at a changed speed, the angle held
\* where earlier ticks had brought it
C15_Witness ==
    /\ lastCall # None /\ lastCall.kind = "tick" /\ paused
    /\ speed # InitialSpeed /\ theta # FloatZero /\ lastCall.out.theta = theta

\* C16: after any sequence of ticks, pause toggles and speed changes, the
\* speed driven to zero and below included, the angle is at least 0 and
\* less than 360.
C16_AngleInRange == 0 <= theta.m /\ theta.m < Turn

\* exact sum and difference of two angles, and equality of directions
Plus(a, b) == Frac(a.num * b.den + b.num * a.den, a.den * b.den)
Minus(a, b) == Frac(a.num * b.den - b.num * a.den, a.den * b.den)
SameDirection(a, b) == (Minus(a, b).num % (FullTurn * Minus(a, b).den)) = 0

\* The directions sector i of a render_kaleidoscope call covers, clockwise
\* from the up axis: the wedge mask spans a0 to a1 about the up axis (the
\* polygon points are (cx + R sin a, cy - R cos a)), flip(True, False)
\* mirrors it in that axis, and rotozoom by the sector's rotation turns it
\* counterclockwise by that angle.
SectorLo(o, i) ==
    LET w == IF o.sectors[i].flipped
             THEN Frac(-o.wedge.a1.num, o.wedge.a1.den) ELSE o.wedge.a0
    IN Minus(w, o.sectors[i].rotation)
SectorHi(o, i) ==
    LET w == IF o.sectors[i].flipped
             THEN Frac(-o.wedge.a0.num, o.wedge.a0.den) ELSE o.wedge.a1
    IN Minus(w, o.sectors[i].rotation)

\* C17: in every render_kaleidoscope call the program makes (every slice
\* count is even and at least 2 there), the n sectors tile the full circle:
\* each sector has a positive width, sector i ends in the direction in which
\* sector i + 1 begins, the last one where sector 0 begins, and the widths
\* add up to 360 degrees, so there is neither a gap nor an overlap.
C17_SectorsTile ==
    lastCall # None =>
        LET o == lastCall.out
            width == Minus(SectorHi(o, 0), SectorLo(o, 0))
        IN /\ EvenCount(o.n)
           /\ DOMAIN o.sectors = 0..(o.n - 1)
           /\ \A i \in 0..(o.n - 1) :
                 /\ Minus(SectorHi(o, i), SectorLo(o, i)) = width
                 /\ SameDirection(SectorHi(o, i), SectorLo(o, (i + 1) % o.n))
           /\ width.num > 0
           /\ width.num * o.n = FullTurn * width.den

\* a call that placed two half-disk sectors on the fullscreen canvas
C17_Witness == lastCall # None /\ lastCall.out.n = MinSlices /\ fullscreen

\* C18: in every render_kaleidoscope call the program makes, sector i uses
\* the mirrored wedge exactly when i is odd, and of any two sectors next to
\* each other around the circle, sector n - 1 and sector 0 included, one is
\* mirrored and the other is not.
C18_AlternateMirrored ==
    lastCall # None =>
        LET o == lastCall.out IN
        /\ \A i \in 0..(o.n - 1) : o.sectors[i].flipped <=> (i % 2 = 1)
        /\ \A i \in 0..(o.n - 1) :
              o.sectors[i].flipped # o.sectors[(i + 1) % o.n].flipped

\* a tick that rendered sixteen sectors
C18_Witness ==
    /\ lastCall # None /\ lastCall.kind = "tick"
    /\ lastCall.out.n = InitialSlices + SliceStep

\* C19: once stop() has returned (the running flag is cleared after a start()
\* and the caller is no longer inside stop()), self.cap is not an open
\* capture: no handle is opened or stored after stop() has released it.
C19_NoHandleAfterStop ==
    (/\ ~running /\ thread # 0
     /\ mpc \notin {"stop_join", "stop_test", "stop_release", "stop_clear"})
        => (cap = 0 \/ ~IsOpened(cap))

\* C20: when the RTSP program has exited, its cameras, which were all
\* started before the splash screen, have been stopped.
C20_StoppedBeforeExit ==
    (prog = "rtsp" /\ mode = "exited") => cams = "stopped"

====
